---- MODULE Spec2Model ----
(***************************************************************************)
(* The training engine of The Cannon (AnniesLasso): CannonModel.train and  *)
(* L1RegularizedCannonModel.train with the regularization setter, the      *)
(* per-pixel optimizers _fit_pixel / _fit_regularized_pixel and the Pixel  *)
(* Regressor _fit_theta.                                                   *)
(*                                                                         *)
(* Numbers.  A float is a pair <<n, d>>: the rational n/d in lowest terms  *)
(* with d > 0, +inf = <<1, 0>>, -inf = <<-1, 0>>, nan = <<0, 0>>.  The     *)
(* linear algebra is exact; the square root, whose value is irrational in  *)
(* general, is rounded to the nearest representable scatter, and the       *)
(* representable scatters of the model are the whole multiples of the unit.*)
(*                                                                         *)
(* Units.  Scatter is counted in units of the default seed 0.01, s2 in     *)
(* units of 0.01^2 and inverse variance in units of 0.01^-2, so that       *)
(* ivar / (1 + ivar * scatter^2) is computed on whole numbers.             *)
(***************************************************************************)
EXTENDS Integers, Sequences, FiniteSets, TLC

\* ------------------------------------------------------------ bounds
NStars == 2
NPixels == 2

Stars == 1..NStars
Pixels == 1..NPixels

\* ------------------------------------------------------------ floats
Abs(i) == IF i < 0 THEN -i ELSE i

Sign(i) == IF i < 0 THEN -1 ELSE IF i > 0 THEN 1 ELSE 0

RECURSIVE GCD(_, _)
GCD(a, b) == IF b = 0 THEN a ELSE GCD(b, a % b)

\* gcd that is never 0, to divide by
G(a, b) == LET g == GCD(Abs(a), Abs(b)) IN IF g = 0 THEN 1 ELSE g

Norm(n, d) ==
    IF d = 0 THEN <<Sign(n), 0>>
    ELSE LET g == G(n, d)
             s == Sign(d)
         IN <<(s * n) \div g, (s * d) \div g>>

Fin(i) == <<i, 1>>

Inf == <<1, 0>>

NaN == <<0, 0>>

IsFinite(x) == x[2] # 0

IsNaN(x) == x = NaN

\* 0 > x, as numpy compares: false for nan
Lt0(x) == x[1] < 0

\* x >= 0: false for nan
Ge0(x) == x # NaN /\ x[1] >= 0

Mul(x, y) ==
    LET g1 == G(x[1], y[2])
        g2 == G(y[1], x[2])
    IN Norm((x[1] \div g1) * (y[1] \div g2), (x[2] \div g2) * (y[2] \div g1))

Add(x, y) ==
    IF x[2] = 0 \/ y[2] = 0
    THEN IF x[2] = 0 /\ y[2] = 0 THEN (IF x = y THEN x ELSE NaN)
         ELSE IF x[2] = 0 THEN x ELSE y
    ELSE LET g == G(x[2], y[2])
         IN Norm(x[1] * (y[2] \div g) + y[1] * (x[2] \div g), (x[2] \div g) * y[2])

Neg(x) == <<-x[1], x[2]>>

Sub(x, y) == Add(x, Neg(y))

Recip(x) == Norm(x[2], x[1])

Div(x, y) == Mul(x, Recip(y))

\* x**2
Sq(x) == Mul(x, x)

\* the whole number nearest to sqrt(n/d), n >= 0, d > 0
RoundSqrt(n, d) ==
    CHOOSE r \in 0..(n + 1) :
        /\ (r = 0 \/ (2 * r - 1) * (2 * r - 1) * d <= 4 * n)
        /\ 4 * n < (2 * r + 1) * (2 * r + 1) * d

\* np.sqrt: nan for a negative number, inf for inf, else rounded
Sqrt(x) ==
    IF x[2] = 0 THEN (IF x = Inf THEN Inf ELSE NaN)
    ELSE IF x[1] < 0 THEN NaN
    ELSE Fin(RoundSqrt(x[1], x[2]))

RECURSIVE SumInts(_)
SumInts(s) == IF s = <<>> THEN 0 ELSE Head(s) + SumInts(Tail(s))

HasNaN(v) == \E k \in 1..Len(v) : IsNaN(v[k])

RECURSIVE SumSeq(_)
SumSeq(s) == IF s = <<>> THEN Fin(0) ELSE Add(Head(s), SumSeq(Tail(s)))

\* ------------------------------------------------------------ matrices
\* a matrix is a sequence of rows; the matrix m without row 1 and column c
Minor(m, c) ==
    [i \in 1..(Len(m) - 1) |->
        [j \in 1..(Len(m) - 1) |-> m[i + 1][IF j < c THEN j ELSE j + 1]]]

RECURSIVE Det(_)
Det(m) ==
    IF Len(m) = 0 THEN 1
    ELSE IF Len(m) = 1 THEN m[1][1]
    ELSE SumInts([c \in 1..Len(m) |->
            (IF c % 2 = 1 THEN 1 ELSE -1) * m[1][c] * Det(Minor(m, c))])

\* m with column k replaced by the vector v
ReplaceCol(m, k, v) ==
    [i \in 1..Len(m) |-> [j \in 1..Len(m) |-> IF j = k THEN v[i] ELSE m[i][j]]]

\* ------------------------------------------------------------ vectorizer
\* The vectorizer of the model: one label, a bias term and a linear term.
Vectorizer(label) == <<1, label>>

\* design_matrix.shape[1]
NTerms(design) == Len(design[1])

\* a fallback of zeros only
FallbackZeros(design) == [k \in 1..NTerms(design) |-> Fin(0)]

\* np.hstack([1, [0] * (design_matrix.shape[1] - 1)])
Fallback(design) == [k \in 1..NTerms(design) |-> IF k = 1 THEN Fin(1) ELSE Fin(0)]

\* ------------------------------------------------------------ _fit_theta
\* normalized_ivar / (1. + normalized_ivar * scatter**2), for one star
EffIvar(iv, scatter) == Div(Fin(iv), Add(Fin(1), Mul(Fin(iv), Sq(scatter))))

RECURSIVE LCMSeq(_)
LCMSeq(s) ==
    IF s = <<>> THEN 1
    ELSE LET rest == LCMSeq(Tail(s)) IN (Head(s) * rest) \div G(Head(s), rest)

\* The normal equations are homogeneous in the weights, so they are solved on
\* whole numbers: the effective inverse variances times their common denominator.
WholeWeights(ivar) ==
    [n \in 1..Len(ivar) |->
        ivar[n][1] * (LCMSeq([m \in 1..Len(ivar) |-> ivar[m][2]]) \div ivar[n][2])]

\* np.dot(design_matrix.T, CiA), CiA = design_matrix * ivar
ATCiA(w, design) ==
    [j \in 1..NTerms(design) |-> [k \in 1..NTerms(design) |->
        SumInts([n \in 1..Len(design) |-> design[n][j] * design[n][k] * w[n]])]]

\* np.dot(design_matrix.T, normalized_flux * ivar)
ATY(flux, w, design) ==
    [j \in 1..NTerms(design) |->
        SumInts([n \in 1..Len(design) |-> design[n][j] * flux[n] * w[n]])]

\* np.linalg.inv(ATCiA) and np.dot(ATCiAinv, ATY), by Cramer's rule.
\* np.linalg.inv raises LinAlgError on an exactly singular matrix.
Solve(A, b, ivar, design) ==
    IF Det(A) = 0
    THEN [theta |-> Fallback(design), ATCiAinv_is_None |-> TRUE, ivar |-> ivar]
    ELSE [theta |-> [k \in 1..NTerms(design) |-> Norm(Det(ReplaceCol(A, k, b)), Det(A))],
          ATCiAinv_is_None |-> FALSE, ivar |-> ivar]

\* _fit_theta with the effective inverse variance at hand.  A matrix that
\* holds nan is inverted to nan, without an exception.
FitThetaAt(ivar, flux, design) ==
    IF HasNaN(ivar)
    THEN [theta |-> [k \in 1..NTerms(design) |-> NaN],
          ATCiAinv_is_None |-> FALSE, ivar |-> ivar]
    ELSE CHOOSE r \in
            { Solve(ATCiA(w, design), ATY(flux, w, design), ivar, design) :
                w \in {WholeWeights(ivar)} } : TRUE

\* _fit_theta: (theta, ATCiAinv, ivar), with ATCiAinv reduced to whether it is None
FitTheta(flux, ivar0, scatter, design) ==
    CHOOSE r \in
        { FitThetaAt(ivar, flux, design) :
            ivar \in {[n \in 1..Len(design) |-> EffIvar(ivar0[n], scatter)]} } : TRUE

\* ------------------------------------------------------------ fmin_powell
\* scipy's line-search minimizer is a black box to the program: a fixed but
\* unknown function of the objective, its arguments and the start p0.  A
\* behaviour fixes one such function, powell, when it starts: a rule that maps
\* a key of the call's inputs to what the search converges to (the scatter it
\* ends at, and whether the L1 penalty drives the label-sensitivity
\* coefficients to zero).
\* warnflag: 0 when the search converged, 1 when it stopped at the ceiling of
\* function evaluations, 2 at the ceiling of iterations.
Outcomes == {[scatter |-> -1, sparse |-> TRUE, warnflag |-> 1],
             [scatter |-> 2, sparse |-> FALSE, warnflag |-> 0],
             [scatter |-> 2, sparse |-> TRUE, warnflag |-> 2]}

\* the rules a behaviour may start with: two keys that end in different
\* outcomes, the second either converged or stopped at a later ceiling than the first
PowellRules == {r \in [0..1 -> Outcomes] : r[0].warnflag # r[1].warnflag /\ r[1].warnflag # 1}

PowellKey(flux, ivar, p0, regularization, design) ==
    ( SumInts([n \in 1..Len(flux) |-> flux[n] * ivar[n] + design[n][NTerms(design)]])
    + Abs(p0[1][1]) + p0[1][2]
    + Abs(regularization[1]) ) % 2

\* theta with every coefficient but the bias set to zero
Sparse(theta) == [k \in 1..Len(theta) |-> IF k = 1 THEN theta[1] ELSE Fin(0)]

\* op.fmin_powell(func, p0, args=...)[0]: the point the search returns
FminPowell(rule, func, p0, flux, ivar, regularization, design) ==
    LET out == rule[PowellKey(flux, ivar, p0, regularization, design)]
        shrink(t) == IF ~Lt0(regularization) /\ regularization # Fin(0) /\ out.sparse
                     THEN Sparse(t) ELSE t
    IN IF HasNaN(p0) THEN p0
       ELSE IF func = "_fit_pixel_with_fixed_scatter"
            THEN <<Fin(out.scatter)>>
       ELSE IF func = "_fit_pixel_with_fixed_regularization_and_fixed_scatter"
            THEN shrink(p0)
       ELSE \* _fit_pixel_with_fixed_regularization: p0 = (scatter, *theta)
            <<Fin(out.scatter)>> \o shrink(Tail(p0))

\* a warnflag that is never looked at
FminPowellWarnflagIgnored(rule, p0, flux, ivar, regularization, design) == 0

\* op.fmin_powell(func, p0, args=..., full_output=True)[5]: the warnflag
FminPowellWarnflag(rule, p0, flux, ivar, regularization, design) ==
    IF HasNaN(p0) THEN 0
    ELSE rule[PowellKey(flux, ivar, p0, regularization, design)].warnflag

\* ------------------------------------------------------------ the objectives
\* np.abs
AbsF(x) == <<Abs(x[1]), x[2]>>

\* L1Norm: np.sum(np.abs(Q))
L1Norm(Q) == SumSeq([k \in 1..Len(Q) |-> AbsF(Q[k])])

\* the norm taken over every coefficient, the bias among them
PenaltyWithBias(theta, regularization) == Mul(regularization, L1Norm(theta))

\* _fit_pixel_with_fixed_regularization_and_fixed_scatter, its last term:
\* regularization * L1Norm(theta[1:])
PenaltyFixedScatter(theta, regularization) == Mul(regularization, L1Norm(Tail(theta)))

\* _fit_pixel_with_fixed_regularization: scatter, theta = parameters[0],
\* parameters[1:], and the objective above on that theta
PenaltyFreeScatter(parameters, regularization) ==
    PenaltyFixedScatter(Tail(parameters), regularization)

\* ------------------------------------------------------------ per-pixel fits
\* the messages of logger.warning, by warnflag
PixelWarnings ==
    << "Warning: Maximum number of function evaluations made during optimisation.",
       "Warning: Maximum number of iterations made during optimisation." >>

RegularizedPixelWarnings ==
    << "Optimization stopped prematurely: Maximum number of function evaluations.",
       "Optimization stopped prematurely: Maximum number of iterations." >>

\* no line search: no start, no inverse variances handed to an objective
NoSearch == [p0 |-> <<>>, ivar |-> <<>>]

\* what a per-pixel fit leaves behind besides its result: the calls it made,
\* the warning it logged, the penalty of the objective at the start of the
\* search, and what the search was given
NoTrace == [calls |-> <<>>, warning |-> "none", penalty |-> <<>>, search |-> NoSearch]

\* the search over (scatter, theta) whether the scatter is fixed or not
RegularizedSearchJoint(first, ivar, scatter, fixed_scatter) ==
    [p0 |-> <<scatter>> \o first.theta, ivar |-> [n \in 1..Len(ivar) |-> Fin(ivar[n])]]

\* _fit_regularized_pixel: p0 and the inverse variances in args.  With a fixed
\* scatter the search starts at theta and the objective is given the inv_var
\* of _fit_theta; else it starts at (scatter, theta) and is given normalized_ivar.
RegularizedSearch(first, ivar, scatter, fixed_scatter) ==
    IF fixed_scatter
    THEN [p0 |-> first.theta, ivar |-> first.ivar]
    ELSE [p0 |-> <<scatter>> \o first.theta, ivar |-> [n \in 1..Len(ivar) |-> Fin(ivar[n])]]

\* np.hstack([theta, scatter])
HStack(theta, scatter) == Append(theta, scatter)

\* a zero scatter in the place of np.inf
EarlyResultZero(theta, scatter, fixed_scatter) ==
    HStack(theta, IF fixed_scatter THEN scatter ELSE Fin(0))

\* np.hstack([theta, scatter if fixed_scatter else np.inf]): what both fits
\* return for a singular pixel (and _fit_pixel for a fixed scatter)
EarlyResult(theta, scatter, fixed_scatter) ==
    HStack(theta, IF fixed_scatter THEN scatter ELSE Inf)

\* _fit_pixel with its early return taken for a singular pixel only
FitPixelRunIterates(rule, flux, ivar, scatter, design, fixed_scatter) ==
    LET first == FitTheta(flux, ivar, scatter, design)
    IN IF first.ATCiAinv_is_None
       THEN [result |-> EarlyResult(first.theta, scatter, fixed_scatter),
             calls |-> <<"_fit_theta">>, warning |-> "none", penalty |-> <<>>,
             search |-> NoSearch]
       ELSE [result |-> HStack(first.theta, scatter),
             calls |-> <<"_fit_theta", "fmin_powell", "_fit_theta">>,
             warning |-> "none", penalty |-> <<>>, search |-> NoSearch]

\* _fit_pixel: its result and what it leaves behind
FitPixelRun(rule, flux, ivar, scatter, design, fixed_scatter) ==
    LET first == FitTheta(flux, ivar, scatter, design)
    IN IF first.ATCiAinv_is_None \/ fixed_scatter
       THEN [result |-> EarlyResult(first.theta, scatter, fixed_scatter),
             calls |-> <<"_fit_theta">>, warning |-> "none", penalty |-> <<>>,
             search |-> NoSearch]
       ELSE LET op_scatter == FminPowell(rule, "_fit_pixel_with_fixed_scatter",
                                  <<scatter>>, flux, ivar, Fin(0), design)[1]
                warnflag == FminPowellWarnflag(rule, <<scatter>>, flux, ivar,
                                               Fin(0), design)
            IN [result |-> HStack(FitTheta(flux, ivar, op_scatter, design).theta,
                                  op_scatter),
                calls |-> <<"_fit_theta", "fmin_powell", "_fit_theta">>,
                warning |-> IF warnflag > 0 THEN PixelWarnings[warnflag] ELSE "none",
                penalty |-> <<>>,
                search |-> [p0 |-> <<scatter>>,
                            ivar |-> [n \in 1..Len(ivar) |-> Fin(ivar[n])]]]

\* _fit_pixel
FitPixel(rule, flux, ivar, scatter, design, fixed_scatter) ==
    FitPixelRun(rule, flux, ivar, scatter, design, fixed_scatter).result

\* _fit_regularized_pixel without its return for a singular pixel
FitRegularizedPixelRunIterates(rule, flux, ivar, scatter, regularization, design, fixed_scatter) ==
    LET first == FitTheta(flux, ivar, scatter, design)
        p0 == IF fixed_scatter THEN first.theta ELSE <<scatter>> \o first.theta
    IN [result |-> HStack(first.theta, scatter),
        calls |-> <<"_fit_theta", "fmin_powell">>,
        warning |-> "none",
        penalty |-> IF fixed_scatter THEN PenaltyFixedScatter(p0, regularization)
                    ELSE PenaltyFreeScatter(p0, regularization),
        search |-> NoSearch]

\* _fit_regularized_pixel: its result and what it leaves behind
FitRegularizedPixelRun(rule, flux, ivar, scatter, regularization, design, fixed_scatter) ==
    LET first == FitTheta(flux, ivar, scatter, design)
    IN IF first.ATCiAinv_is_None
       THEN [result |-> EarlyResult(first.theta, scatter, fixed_scatter),
             calls |-> <<"_fit_theta">>, warning |-> "none", penalty |-> <<>>,
             search |-> NoSearch]
       ELSE LET func == IF fixed_scatter
                        THEN "_fit_pixel_with_fixed_regularization_and_fixed_scatter"
                        ELSE "_fit_pixel_with_fixed_regularization"
                search == RegularizedSearch(first, ivar, scatter, fixed_scatter)
                p0 == search.p0
                parameters == FminPowell(rule, func, p0, flux, ivar, regularization, design)
                warnflag == FminPowellWarnflag(rule, p0, flux, ivar, regularization, design)
            IN [result |-> IF fixed_scatter THEN HStack(parameters, scatter)
                           ELSE HStack(Tail(parameters), parameters[1]),
                calls |-> <<"_fit_theta", "fmin_powell">>,
                warning |-> IF warnflag > 0 THEN RegularizedPixelWarnings[warnflag]
                            ELSE "none",
                penalty |-> IF fixed_scatter THEN PenaltyFixedScatter(p0, regularization)
                            ELSE PenaltyFreeScatter(p0, regularization),
                search |-> search]

\* _fit_regularized_pixel
FitRegularizedPixel(rule, flux, ivar, scatter, regularization, design, fixed_scatter) ==
    FitRegularizedPixelRun(rule, flux, ivar, scatter, regularization, design,
                           fixed_scatter).result

\* utils.wrapper(fitter, None, kwds, N): f(row) = fitter(*row, **kwds), with what
\* the call leaves behind
WrapperRun(rule, kwds, row) ==
    IF kwds.function = "_fit_pixel"
    THEN FitPixelRun(rule, row[1], row[2], row[3], kwds.design_matrix, kwds.fixed_scatter)
    ELSE FitRegularizedPixelRun(rule, row[1], row[2], row[3], row[4],
                                kwds.design_matrix, kwds.fixed_scatter)

\* utils.wrapper(fitter, None, kwds, N): f(row) = fitter(*row, **kwds)
Wrapper(rule, kwds, row) == WrapperRun(rule, kwds, row).result

\* ------------------------------------------------------------ the model object
VARIABLES
    normalized_flux,    \* [star][pixel], read-only after construction
    normalized_ivar,    \* [star][pixel], read-only after construction
    design_matrix,      \* [star][term], the vectorizer applied to the labels
    dispersion,         \* one entry per pixel
    pool,               \* whether a multiprocessing pool was given
    powell,             \* the behaviour of op.fmin_powell (see above)
    theta,              \* None, or one row of coefficients per pixel
    s2,                 \* None, or one variance per pixel
    regularization,     \* _regularization: None, or one value per pixel
    pc,                 \* "idle", or "mapping" inside train's mapper call
    kwds,               \* train: the keywords the wrapper passes to the fitter
    rows,               \* train: [row for row in zip(*args)]
    status,             \* train: per row, "queued", "running" or "done"
    results,            \* train: per row, what f(row) returned
    called,             \* train: per row, the fitter that was invoked on it
    trace,              \* train: per row, what the fit left behind besides its result
    returned,           \* what the last call returned: None, or the array fit returned
    fitted,             \* fit: per star it worked on, fit's arguments and what _fit_spectrum did
    cv,                 \* the last cross_validate_regularization call: where it ended and what it did
    raised              \* the exception the last call ended with, or "none"

vars == <<normalized_flux, normalized_ivar, design_matrix, dispersion, pool, powell,
          theta, s2, regularization, pc, kwds, rows, status, results, called, trace,
          returned, fitted, cv, raised>>

data == <<normalized_flux, normalized_ivar, design_matrix, dispersion, pool, powell>>

mapping == <<kwds, rows, status, results, called, trace>>

\* no call of cross_validate_regularization yet: no line reached, no model
\* trained for a Lambda, no dump file
NoCrossValidation == [line |-> 0, trained |-> 0, dumped |-> FALSE]

\* the exceptions the program raises
ScatterNotSet == "ValueError: scatter attribute (s2) must be set before training if fixed_scatter is set to True"

RegularizationSize == "ValueError: regularization must be a positive value or an array of positive values for each pixel"

RegularizationSign == "ValueError: regularization terms must be positive and finite"

ZipOfNone == "TypeError: zip argument must support iteration"

\* Python's None, for theta, s2 and _regularization (no stored array is empty)
None == <<>>

NoKwds == [function |-> "none", fixed_scatter |-> FALSE, design_matrix |-> <<>>]

\* ------------------------------------------------------------ the data sets
\* The flux and inverse variance of one pixel over the stars.
FluxColumn(kind) ==
    [n \in Stars |-> IF kind = "ramp" THEN n ELSE IF kind = "curve" THEN n * n ELSE 2]

IvarColumn(kind) ==
    [n \in Stars |-> IF kind = "ones" THEN 1
                     ELSE IF kind = "uneven" THEN 1 + (n % 2)
                     ELSE IF kind = "masked" THEN 0
                     ELSE (IF n = 1 THEN 0 ELSE 1)]

\* clean; weights that differ; fully masked (singular); first star masked
Columns == << [flux |-> "ramp", ivar |-> "ones"],
              [flux |-> "curve", ivar |-> "uneven"],
              [flux |-> "flat", ivar |-> "masked"],
              [flux |-> "ramp", ivar |-> "partial"] >>

ColumnOf(shift, p) == Columns[((p + shift) % Len(Columns)) + 1]

\* labels that differ from star to star, or one label for every star (a
\* design matrix of deficient rank)
LabelSets == { [n \in Stars |-> n - 1], [n \in Stars |-> 0] }

\* 0.01, in the unit of scatter
DefaultScatter == Fin(1)

Init ==
    /\ \E shift \in 0..(Len(Columns) - 1) :
        /\ normalized_flux =
             [n \in Stars |-> [p \in Pixels |-> FluxColumn(ColumnOf(shift, p).flux)[n]]]
        /\ normalized_ivar =
             [n \in Stars |-> [p \in Pixels |-> IvarColumn(ColumnOf(shift, p).ivar)[n]]]
    /\ \E labels \in LabelSets : design_matrix = [n \in Stars |-> Vectorizer(labels[n])]
    /\ dispersion = [p \in Pixels |-> p]
    /\ pool \in BOOLEAN
    /\ powell \in PowellRules
    /\ theta = None
    /\ s2 = None
    /\ regularization = None
    /\ pc = "idle"
    /\ kwds = NoKwds
    /\ rows = <<>>
    /\ status = <<>>
    /\ results = <<>>
    /\ called = <<>>
    /\ trace = <<>>
    /\ returned = None
    /\ fitted = <<>>
    /\ cv = NoCrossValidation
    /\ raised = "none"

\* a call that is not fit returns None (and no spectrum was fitted in it)
ReturnsNone == returned' = None /\ fitted' = <<>>

\* ------------------------------------------------------------ regularization
\* What is assigned: None, or np.array(regularization).flatten().
RegInputVals == {Fin(-1), Fin(0), Fin(1), NaN, Inf}

RegValidVals == {Fin(0), Fin(1)}

RegBadVals == {Fin(-1), NaN, Inf}

\* arrays of one valid value per pixel; such arrays with one entry replaced by
\* a negative or non-finite one; arrays of a valid value but a wrong length;
\* scalars
RegArrays ==
    [Pixels -> RegValidVals]
    \cup {[a EXCEPT ![i] = b] : a \in {[p \in Pixels |-> Fin(1)]}, i \in Pixels, b \in RegBadVals}
    \cup {[i \in 1..l |-> Fin(1)] : l \in 0..(NPixels + 1)}
    \cup {<<v>> : v \in RegInputVals}

RegInputs ==
    {[is_none |-> TRUE, value |-> <<>>]}
    \cup {[is_none |-> FALSE, value |-> v] : v \in RegArrays}

\* the setter without its np.isfinite test
RegularizationSetterSignOnly(input, old, disp) ==
    IF input.is_none THEN [raised |-> "none", stored |-> None]
    ELSE LET flat == input.value
             value == IF Len(flat) = 1
                      THEN [i \in 1..Len(disp) |-> Mul(Fin(1), flat[1])]
                      ELSE flat
         IN IF Len(flat) # 1 /\ Len(flat) # Len(disp)
            THEN [raised |-> RegularizationSize, stored |-> old]
            ELSE IF \E i \in 1..Len(value) : Lt0(value[i])
            THEN [raised |-> RegularizationSign, stored |-> old]
            ELSE [raised |-> "none", stored |-> value]

\* the setter storing the array before it tests its values
RegularizationSetterStoresFirst(input, old, disp) ==
    IF input.is_none THEN [raised |-> "none", stored |-> None]
    ELSE LET flat == input.value
             value == IF Len(flat) = 1
                      THEN [i \in 1..Len(disp) |-> Mul(Fin(1), flat[1])]
                      ELSE flat
         IN IF Len(flat) # 1 /\ Len(flat) # Len(disp)
            THEN [raised |-> RegularizationSize, stored |-> old]
            ELSE IF (\E i \in 1..Len(value) : Lt0(value[i]))
                    \/ ~(\A i \in 1..Len(value) : IsFinite(value[i]))
            THEN [raised |-> RegularizationSign, stored |-> value]
            ELSE [raised |-> "none", stored |-> value]

\* the regularization setter: the exception it raises and what it stores
RegularizationSetter(input, old, disp) ==
    IF input.is_none THEN [raised |-> "none", stored |-> None]
    ELSE LET flat == input.value
             value == IF Len(flat) = 1
                      THEN [i \in 1..Len(disp) |-> Mul(Fin(1), flat[1])]
                      ELSE flat
         IN IF Len(flat) # 1 /\ Len(flat) # Len(disp)
            THEN [raised |-> RegularizationSize, stored |-> old]
            ELSE IF (\E i \in 1..Len(value) : Lt0(value[i]))
                    \/ ~(\A i \in 1..Len(value) : IsFinite(value[i]))
            THEN [raised |-> RegularizationSign, stored |-> old]
            ELSE [raised |-> "none", stored |-> value]

SetRegularization(input) ==
    /\ pc = "idle"
    /\ LET r == RegularizationSetter(input, regularization, dispersion)
       IN /\ regularization' = r.stored
          /\ raised' = r.raised
    /\ UNCHANGED <<data, cv, theta, s2, pc, mapping>>
    /\ ReturnsNone

\* ------------------------------------------------------------ s2
\* The caller supplies a scatter before a fixed-scatter training: a finite,
\* non-negative variance, broadcast to every pixel.
S2InputVals == {Fin(0), Fin(2)}

SetS2(value) ==
    /\ pc = "idle"
    /\ s2' = [i \in 1..Len(dispersion) |-> value]
    /\ raised' = "none"
    /\ UNCHANGED <<data, cv, theta, regularization, pc, mapping>>
    /\ ReturnsNone

\* ------------------------------------------------------------ train
\* m.T: one row per pixel
Transpose(m) == [p \in 1..Len(m[1]) |-> [n \in 1..Len(m) |-> m[n][p]]]

\* one row short of the shortest argument
MinLenShort(args) ==
    (CHOOSE l \in {Len(args[a]) : a \in 1..Len(args)} :
        \A a \in 1..Len(args) : l <= Len(args[a])) - 1

\* the length of the shortest argument
MinLen(args) ==
    CHOOSE l \in {Len(args[a]) : a \in 1..Len(args)} :
        \A a \in 1..Len(args) : l <= Len(args[a])

\* zip(*args): as many rows as the shortest argument has entries
Zip(args) == [i \in 1..MinLen(args) |-> [a \in 1..Len(args) |-> args[a][i]]]

\* np.all(self.regularization == 0): None == 0 is False
AllZero(reg) == reg # None /\ \A i \in 1..Len(reg) : reg[i] = Fin(0)

\* the regularized fit only when no value is zero (np.any in the place of np.all)
SelectFunctionAnyZero(reg) ==
    IF reg # None /\ (\E i \in 1..Len(reg) : reg[i] = Fin(0))
    THEN "_fit_pixel" ELSE "_fit_regularized_pixel"

\* L1RegularizedCannonModel.train: the function it hands to CannonModel.train
SelectFunction(reg) ==
    IF ~AllZero(reg) THEN "_fit_regularized_pixel" ELSE "_fit_pixel"

\* "additional_args": [self.regularization], when the function is handed over
AdditionalArgs(reg) == IF ~AllZero(reg) THEN <<reg>> ELSE <<>>

\* the seed taken from the stored s2 whenever there is one
InitialScatterWarm(fixed_scatter, variance, disp) ==
    IF variance # None THEN [i \in 1..Len(variance) |-> Sqrt(variance[i])]
    ELSE [i \in 1..Len(disp) |-> DefaultScatter]

\* p0_scatter
InitialScatter(fixed_scatter, variance, disp) ==
    IF fixed_scatter THEN [i \in 1..Len(variance) |-> Sqrt(variance[i])]
    ELSE [i \in 1..Len(disp) |-> DefaultScatter]

\* the precondition check left out
MissingScatterUnchecked(fixed_scatter, variance) == FALSE

\* if fixed_scatter and self.s2 is None
MissingScatter(fixed_scatter, variance) == fixed_scatter /\ variance = None

\* train up to the mapper call: the precondition check, the scatter seed, the
\* fitter and its arguments, the rows.  zip raises TypeError on None.
TrainBegin(fixed_scatter) ==
    /\ pc = "idle"
    /\ IF MissingScatter(fixed_scatter, s2)
       THEN /\ raised' = ScatterNotSet
            /\ UNCHANGED <<pc, mapping>>
       ELSE LET args == <<Transpose(normalized_flux), Transpose(normalized_ivar),
                          InitialScatter(fixed_scatter, s2, dispersion)>>
                        \o AdditionalArgs(regularization)
            IN IF \E a \in 1..Len(args) : args[a] = None
               THEN /\ raised' = ZipOfNone
                    /\ UNCHANGED <<pc, mapping>>
               ELSE /\ raised' = "none"
                    /\ pc' = "mapping"
                    /\ kwds' = [function |-> SelectFunction(regularization),
                                fixed_scatter |-> fixed_scatter,
                                design_matrix |-> design_matrix]
                    /\ rows' = Zip(args)
                    /\ status' = [i \in 1..Len(Zip(args)) |-> "queued"]
                    /\ results' = [i \in 1..Len(Zip(args)) |-> <<>>]
                    /\ called' = [i \in 1..Len(Zip(args)) |-> "none"]
                    /\ trace' = [i \in 1..Len(Zip(args)) |-> NoTrace]
    /\ UNCHANGED <<data, cv, theta, s2, regularization>>
    /\ ReturnsNone

\* the results in the order the workers hand them back
ResultSlotByCompletion(i, done) == Cardinality(done) + 1

\* the slot of the result list that holds f(rows[i]): map and pool.map both
\* return the results in the order of their arguments
ResultSlot(i, done) == i

\* map(f, rows): the rows one after the other, in order
Apply(i) ==
    /\ pc = "mapping"
    /\ ~pool
    /\ status[i] = "queued"
    /\ \A j \in 1..(i - 1) : status[j] = "done"
    /\ status' = [status EXCEPT ![i] = "done"]
    /\ called' = [called EXCEPT ![i] = kwds.function]
    /\ \E run \in {WrapperRun(powell, kwds, rows[i])} :
        /\ results' = [results EXCEPT ![i] = run.result]
        /\ trace' = [trace EXCEPT ![i] = [calls |-> run.calls, warning |-> run.warning,
                                          penalty |-> run.penalty,
                                          search |-> run.search]]
    /\ UNCHANGED <<data, cv, theta, s2, regularization, pc, kwds, rows, raised>>
    /\ ReturnsNone

\* pool.map(f, rows): a worker process takes a row ...
WorkerStart(i) ==
    /\ pc = "mapping"
    /\ pool
    /\ status[i] = "queued"
    /\ status' = [status EXCEPT ![i] = "running"]
    /\ called' = [called EXCEPT ![i] = kwds.function]
    /\ UNCHANGED <<data, cv, theta, s2, regularization, pc, kwds, rows, results, trace, raised>>
    /\ ReturnsNone

\* ... and hands its result back, in any order
WorkerFinish(i) ==
    /\ pc = "mapping"
    /\ pool
    /\ status[i] = "running"
    /\ status' = [status EXCEPT ![i] = "done"]
    /\ \E run \in {WrapperRun(powell, kwds, rows[i])} :
        /\ LET done == {j \in 1..Len(status) : status[j] = "done"}
           IN results' = [results EXCEPT ![ResultSlot(i, done)] = run.result]
        /\ trace' = [trace EXCEPT ![i] = [calls |-> run.calls, warning |-> run.warning,
                                          penalty |-> run.penalty,
                                          search |-> run.search]]
    /\ UNCHANGED <<data, cv, theta, s2, regularization, pc, kwds, rows, called, raised>>
    /\ ReturnsNone

\* results[:, :-1]
AllButLast(v) == SubSeq(v, 1, Len(v) - 1)

\* results[:, -1]
Last(v) == v[Len(v)]

\* self.theta, self.s2 = (results[:, :-1], results[:, -1]**2)
UnpackTheta(res) == [i \in 1..Len(res) |-> AllButLast(res[i])]

\* results[:, -1], not squared
UnpackS2NotSquared(res) == [i \in 1..Len(res) |-> Last(res[i])]

\* results[:, -1]**2
UnpackS2(res) == [i \in 1..Len(res) |-> Sq(Last(res[i]))]

TrainUnpack ==
    /\ pc = "mapping"
    /\ \A i \in 1..Len(status) : status[i] = "done"
    /\ theta' = UnpackTheta(results)
    /\ s2' = UnpackS2(results)
    /\ pc' = "idle"
    /\ kwds' = NoKwds
    /\ rows' = <<>>
    /\ status' = <<>>
    /\ results' = <<>>
    /\ called' = <<>>
    /\ trace' = <<>>
    /\ UNCHANGED <<data, cv, regularization, raised>>
    /\ ReturnsNone

\* ------------------------------------------------------------ fit
LinAlgError == "LinAlgError: Singular matrix"

CurveFitError == "RuntimeError: Optimal parameters not found"

\* the determinant of a matrix of floats
RECURSIVE DetF(_)
DetF(m) ==
    IF Len(m) = 1 THEN m[1][1]
    ELSE SumSeq([c \in 1..Len(m) |->
            Mul(IF c % 2 = 1 THEN m[1][c] ELSE Neg(m[1][c]), DetF(Minor(m, c)))])

\* np.linalg.solve(A, B): LinAlgError for an exactly singular A, nan where A
\* or B hold a value that is not finite
LinalgSolve(A, B) ==
    IF \E j \in 1..Len(A) : (~IsFinite(B[j]) \/ \E k \in 1..Len(A) : ~IsFinite(A[j][k]))
    THEN [raised |-> "none", x |-> [k \in 1..Len(A) |-> NaN]]
    ELSE IF DetF(A) = Fin(0)
    THEN [raised |-> LinAlgError, x |-> <<>>]
    ELSE [raised |-> "none",
          x |-> [k \in 1..Len(A) |-> Div(DetF(ReplaceCol(A, k, B)), DetF(A))]]

\* normalized_ivar/(1. + normalized_ivar * scatter**2), over the pixels
InvVar(ivar, scatter) == [p \in 1..Len(ivar) |-> EffIvar(ivar[p], scatter[p])]

\* _estimate_label_vector
EstimateLabelVector(coefficients, scatter, flux, ivar) ==
    CHOOSE r \in
        { LinalgSolve(
            [j \in 1..Len(coefficients[1]) |-> [k \in 1..Len(coefficients[1]) |->
                SumSeq([p \in 1..Len(flux) |->
                    Mul(coefficients[p][j], Mul(inv_var[p], coefficients[p][k]))])]],
            [j \in 1..Len(coefficients[1]) |->
                SumSeq([p \in 1..Len(flux) |->
                    Mul(coefficients[p][j], Mul(inv_var[p], Fin(flux[p])))])]) :
            inv_var \in {InvVar(ivar, scatter)} } : TRUE

\* vectorizer.get_approximate_labels: the label of the linear term
GetApproximateLabels(label_vector) == <<label_vector[2]>>

\* op.curve_fit is a black box to the program: it returns the labels it ends at
\* and their covariance matrix, or raises RuntimeError when the least-squares
\* search does not end in one of its converged states.  A rule maps a key of
\* the spectrum to which of the two happens.
CurveFitRules == [0..1 -> {"converged", CurveFitError}]

CurveFitKey(flux, ivar) == (flux[1] + ivar[1]) % 2

\* the covariance of the labels: the inverse of the weighted sum of squares of
\* the derivative of the model flux
Covariance(coefficients, inv_var) ==
    <<<<Recip(SumSeq([p \in 1..Len(inv_var) |->
            Mul(inv_var[p], Sq(coefficients[p][2]))]))>>>>

\* _fit_spectrum: (labels, cov), or the exception it ends with, and the
\* effective inverse variances it worked with on the way
FitSpectrum(rule, coefficients, scatter, flux, ivar) ==
    CHOOSE r \in
        { [flux |-> flux, ivar |-> ivar,
           inv_var_estimate |-> InvVar(ivar, scatter),
           inv_var |-> IF est.raised # "none" THEN <<>> ELSE InvVar(ivar, scatter),
           sigma |-> IF est.raised # "none" THEN <<>>
                     ELSE [p \in 1..Len(flux) |-> Sqrt(Recip(InvVar(ivar, scatter)[p]))],
           raised |-> IF est.raised # "none" THEN est.raised
                      ELSE IF rule[CurveFitKey(flux, ivar)] = "converged" THEN "none"
                      ELSE CurveFitError,
           labels |-> IF est.raised = "none" /\ rule[CurveFitKey(flux, ivar)] = "converged"
                      THEN GetApproximateLabels(est.x) ELSE <<>>,
           cov |-> IF est.raised = "none" /\ rule[CurveFitKey(flux, ivar)] = "converged"
                   THEN Covariance(coefficients, InvVar(ivar, scatter)) ELSE <<>>] :
            est \in {EstimateLabelVector(coefficients, scatter, flux, ivar)} } : TRUE

\* np.atleast_2d
AtLeast2D(a, ndim) == IF ndim = 1 THEN <<a>> ELSE a

\* the spectra handed to fit: one with a flux that rises over the pixels, one
\* flat with inverse variances that differ
Spectra ==
    { [flux |-> [p \in Pixels |-> 1 + p], ivar |-> [p \in Pixels |-> 1]],
      [flux |-> [p \in Pixels |-> 2], ivar |-> [p \in Pixels |-> 1 + (p % 2)]] }

\* the longest batch handed to fit
MaxBatch == 2

\* fit's arguments: one spectrum as it is (arrays of one dimension) ...
FitSingles == { [ndim |-> 1, flux |-> x.flux, ivar |-> x.ivar] : x \in Spectra }

\* ... or a batch of spectra (arrays of two dimensions)
FitBatches ==
    { [ndim |-> 2, flux |-> [i \in 1..Len(b) |-> b[i].flux],
                   ivar |-> [i \in 1..Len(b) |-> b[i].ivar]] :
        b \in UNION {[1..n -> Spectra] : n \in 1..MaxBatch} }

\* labels[i], cov together
KeepLabelsAndCov(run) == <<run.labels, run.cov>>

\* labels[i], _ = _fit_spectrum(...)
KeepLabels(run) == run.labels

\* every row from the first spectrum of the batch
SpectrumIndexFirst(i) == 1

\* normalized_flux[i], normalized_ivar[i]
SpectrumIndex(i) == i

\* _fit_spectrum(self.vectorizer, self.theta, self.s2, flux, ivar) for each of
\* the spectra: what the call gives depends on nothing else
FitSpectrumOfModel(rule) ==
    [x \in Spectra |-> FitSpectrum(rule, theta, s2, x.flux, x.ivar)]

\* fit: the loop over the stars ends at the first exception; labels is returned
\* when every star was fitted.  solved is _fit_spectrum of this model.
Fit(input, rule, solved) ==
    /\ pc = "idle"
    /\ theta # None
    /\ s2 # None
    /\ \E runs \in
            { [i \in 1..Len(AtLeast2D(input.flux, input.ndim)) |->
                solved[[flux |-> AtLeast2D(input.flux, input.ndim)[SpectrumIndex(i)],
                        ivar |-> AtLeast2D(input.ivar, input.ndim)[SpectrumIndex(i)]]]] } :
        LET failed == {i \in 1..Len(runs) : runs[i].raised # "none"}
            first == CHOOSE i \in failed : \A j \in failed : i <= j
        IN IF failed = {}
           THEN /\ returned' = [i \in 1..Len(runs) |-> KeepLabels(runs[i])]
                /\ fitted' = [i \in 1..Len(runs) |-> [args |-> input, run |-> runs[i]]]
                /\ raised' = "none"
           ELSE /\ returned' = None
                /\ fitted' = [i \in 1..first |-> [args |-> input, run |-> runs[i]]]
                /\ raised' = runs[first].raised
    /\ UNCHANGED <<data, cv, theta, s2, regularization, pc, mapping>>

Next ==
    \/ \E input \in RegInputs : SetRegularization(input)
    \/ \E value \in S2InputVals : SetS2(value)
    \/ \E fixed_scatter \in BOOLEAN : TrainBegin(fixed_scatter)
    \/ \E i \in 1..Len(rows) : Apply(i)
    \/ \E i \in 1..Len(rows) : WorkerStart(i)
    \/ \E i \in 1..Len(rows) : WorkerFinish(i)
    \/ TrainUnpack

Spec == Init /\ [][Next]_vars

\* ------------------------------------------------------------ inference
\* what a completed train(fixed_scatter) stores for the regularization reg and
\* the stored variance: every row of zip(*args) through the wrapped fitter
TrainedFrom(reg, fixed_scatter, variance) ==
    CHOOSE r \in
        { [theta |-> UnpackTheta(res), s2 |-> UnpackS2(res)] :
            res \in { [i \in 1..Len(dispersion) |->
                Wrapper(powell,
                    [function |-> SelectFunction(reg), fixed_scatter |-> fixed_scatter,
                     design_matrix |-> design_matrix],
                    Zip(<<Transpose(normalized_flux), Transpose(normalized_ivar),
                          InitialScatter(fixed_scatter, variance, dispersion)>>
                        \o AdditionalArgs(reg))[i])] } } : TRUE

\* what a completed train(fixed_scatter=False) stores for the regularization reg
Trained(reg) == TrainedFrom(reg, FALSE, None)

\* A model that was trained, with a free scatter, on one of the data sets, its
\* regularization zero or one at every pixel.  fit does not read the pool (the
\* branch that used it is commented out), so the model is one without a pool.
InitFit ==
    /\ \E shift \in 0..(Len(Columns) - 1) :
        /\ normalized_flux =
             [n \in Stars |-> [p \in Pixels |-> FluxColumn(ColumnOf(shift, p).flux)[n]]]
        /\ normalized_ivar =
             [n \in Stars |-> [p \in Pixels |-> IvarColumn(ColumnOf(shift, p).ivar)[n]]]
    /\ \E labels \in LabelSets : design_matrix = [n \in Stars |-> Vectorizer(labels[n])]
    /\ dispersion = [p \in Pixels |-> p]
    /\ pool = FALSE
    /\ powell \in PowellRules
    /\ regularization \in {[p \in Pixels |-> v] : v \in RegValidVals}
    /\ \E t \in {Trained(regularization)} : theta = t.theta /\ s2 = t.s2
    /\ pc = "idle"
    /\ kwds = NoKwds
    /\ rows = <<>>
    /\ status = <<>>
    /\ results = <<>>
    /\ called = <<>>
    /\ trace = <<>>
    /\ returned = None
    /\ fitted = <<>>
    /\ cv = NoCrossValidation
    /\ raised = "none"

NextFit ==
    \/ \E rule \in CurveFitRules : \E solved \in {FitSpectrumOfModel(rule)} :
            \E input \in FitSingles : Fit(input, rule, solved)
    \/ \E rule \in CurveFitRules : \E solved \in {FitSpectrumOfModel(rule)} :
            \E input \in FitBatches : Fit(input, rule, solved)

SpecFit == InitFit /\ [][NextFit]_vars

\* ------------------------------------------------------------ cross-validation
CrossValidateScatterNotSet ==
    "ValueError: intrinsic pixel variance (s2) must be set before training if fixed_scatter is set to True"

MaskSize == "IndexError: boolean index did not match indexed array"

NameNotDefined == "NameError: name is not defined"

ShapeNotInteger == "TypeError: 'tuple' object cannot be interpreted as an integer"

ScalarIndexed == "IndexError: invalid index to scalar variable"

\* pixel_mask: None, or one boolean per pixel, or an array of another length
PixelMasks ==
    {None, [p \in Pixels |-> TRUE], [p \in Pixels |-> p = 1],
     [p \in 1..(NPixels + 1) |-> TRUE]}

\* Lambdas: the regularization values to try
LambdaSets == {<<Fin(0)>>, <<Fin(0), Fin(1)>>}

\* mod: the number of parts the labelled set is split into
Mods == {2, 10}

\* the names bound when the body starts: the parameters
CrossValidateParameters ==
    {"self", "Lambdas", "fixed_scatter", "pixel_mask", "mod", "kwargs"}

\* the names of the module and the builtins the body reads
ModuleNames ==
    {"np", "logger", "logging", "model", "cannon", "utils", "op", "mp", "stdout",
     "string_types", "map", "sum", "len", "enumerate", "open", "ValueError"}

\* the statements between the pixel mask and the loop over Lambdas: the line,
\* the names read, the names bound, and the exception the statement itself
\* ends with once its names are found
CrossValidateStatements ==
    << [line |-> 270, reads |-> {"kwargs"}, binds |-> {"model_filename_format"}, fails |-> "none"],
       [line |-> 271, reads |-> {"kwargs"}, binds |-> {"overwrite"}, fails |-> "none"],
       [line |-> 272, reads |-> {"kwargs"}, binds |-> {"include_training_data"}, fails |-> "none"],
       [line |-> 276, reads |-> {"self", "mod"}, binds |-> {"subsets"}, fails |-> "none"],
       [line |-> 277, reads |-> {"subset"}, binds |-> {"validate_set"}, fails |-> "none"],
       [line |-> 278, reads |-> {"subset", "mod"}, binds |-> {"train_set"}, fails |-> "none"],
       [line |-> 279, reads |-> {"subset", "mod"}, binds |-> {"test_set"}, fails |-> "none"],
       [line |-> 281, reads |-> {"map", "sum", "train_set", "validate_set", "test_set"},
        binds |-> {"N_train", "N_validate", "N_test"}, fails |-> "none"],
       [line |-> 283, reads |-> {"self", "train_set"}, binds |-> {"train_labelled_set"},
        fails |-> "none"],
       [line |-> 284, reads |-> {"normalized_flux", "train_set"},
        binds |-> {"train_normalized_flux"}, fails |-> "none"],
       [line |-> 285, reads |-> {"normalized_ivar", "train_set"},
        binds |-> {"train_normalized_ivar"}, fails |-> "none"],
       [line |-> 287, reads |-> {"normalized_flux", "validate_set"},
        binds |-> {"validate_normalized_flux"}, fails |-> "none"],
       [line |-> 288, reads |-> {"normalized_ivar", "validate_set"},
        binds |-> {"validate_normalized_ivar"}, fails |-> "none"],
       [line |-> 290, reads |-> {"len", "Lambdas", "dispersion"}, binds |-> {"N_Lambdas"},
        fails |-> "none"],
       [line |-> 292, reads |-> {}, binds |-> {"models"}, fails |-> "none"],
       \* np.zeros((N_Lambdas, N_px)) with N_Lambdas the pair of line 290
       [line |-> 293, reads |-> {"np", "N_Lambdas", "N_px"}, binds |-> {"Q"},
        fails |-> ShapeNotInteger] >>

\* the line of the loop over Lambdas
LoopLine == 295

\* whether a name is found when a statement reads it
Bound(name, locals) == name \in locals \/ name \in ModuleNames

\* statements none of which raises: the loop is reached
CrossValidateWalkThrough(k, locals) == [line |-> LoopLine, raised |-> "none"]

\* the statements from the k-th on, with the names in locals bound: where the
\* first exception is raised, or the loop reached
RECURSIVE CrossValidateWalk(_, _)
CrossValidateWalk(k, locals) ==
    IF k > Len(CrossValidateStatements)
    THEN [line |-> LoopLine, raised |-> "none"]
    ELSE LET st == CrossValidateStatements[k]
         IN IF \E name \in st.reads : ~Bound(name, locals)
            THEN [line |-> st.line, raised |-> NameNotDefined]
            ELSE IF st.fails # "none"
            THEN [line |-> st.line, raised |-> st.fails]
            ELSE CrossValidateWalk(k + 1, locals \cup st.binds)

\* cross_validate_regularization: where the call ends, the exception it ends
\* with, the number of models it trained and whether it wrote the dump file.
\* strict: whether the numpy of the build rejects a boolean index of another
\* length than the array (older builds only warn).
CrossValidateRun(variance, disp, Lambdas, fixed_scatter, pixel_mask, strict) ==
    IF fixed_scatter /\ variance = None
    THEN [line |-> 255, raised |-> CrossValidateScatterNotSet, trained |-> 0, dumped |-> FALSE]
    ELSE IF pixel_mask # None /\ Len(pixel_mask) # Len(disp) /\ strict
    THEN [line |-> 265, raised |-> MaskSize, trained |-> 0, dumped |-> FALSE]
    ELSE LET before == CrossValidateWalk(1, CrossValidateParameters
                            \cup {"normalized_flux", "normalized_ivar", "dispersion"})
         IN IF before.raised # "none"
            THEN [line |-> before.line, raised |-> before.raised,
                  trained |-> 0, dumped |-> FALSE]
            \* the loop trains one model for every Lambda; then line 341
            \* indexes Lambda, the last value of the loop
            ELSE [line |-> 341, raised |-> ScalarIndexed,
                  trained |-> Len(Lambdas), dumped |-> FALSE]

CrossValidateRegularization(Lambdas, fixed_scatter, pixel_mask, mod, strict) ==
    /\ pc = "idle"
    /\ \E run \in {CrossValidateRun(s2, dispersion, Lambdas, fixed_scatter,
                                    pixel_mask, strict)} :
        /\ raised' = run.raised
        /\ cv' = [line |-> run.line, trained |-> run.trained, dumped |-> run.dumped]
    /\ UNCHANGED <<data, theta, s2, regularization, pc, mapping>>
    /\ ReturnsNone

\* A model before a training (no theta, no s2, no regularization) or after one,
\* on which s2 is set and cross_validate_regularization is called.
InitCV == Init \/ InitFit

NextCV ==
    \/ \E value \in S2InputVals : SetS2(value)
    \/ \E Lambdas \in LambdaSets, fixed_scatter \in BOOLEAN, pixel_mask \in PixelMasks,
          mod \in Mods, strict \in BOOLEAN :
            CrossValidateRegularization(Lambdas, fixed_scatter, pixel_mask, mod, strict)

SpecCV == InitCV /\ [][NextCV]_vars

\* ------------------------------------------------------------ properties

\* C1: train(fixed_scatter=True) while s2 is None raises the configuration
\* error at once: no per-pixel fit is invoked, and theta and s2 stay as they were.
C1_FixedScatterNeedsS2 ==
    [][ (TrainBegin(TRUE) /\ s2 = None) =>
            /\ raised' = ScatterNotSet
            /\ pc' = "idle"
            /\ called' = <<>>
            /\ results' = <<>>
            /\ theta' = theta
            /\ s2' = s2 ]_vars

C1_Witness ==
    /\ raised = ScatterNotSet
    /\ s2 = None
    /\ pc = "idle"
    /\ called = <<>>
    /\ regularization # None

RegularizationValid ==
    \/ regularization = None
    \/ /\ Len(regularization) = Len(dispersion)
       /\ \A i \in 1..Len(regularization) :
            IsFinite(regularization[i]) /\ Ge0(regularization[i])

ScalarStored ==
    \A v \in RegInputVals :
        SetRegularization([is_none |-> FALSE, value |-> <<v>>]) =>
            /\ (IsFinite(v) /\ Ge0(v)) => raised' = "none"
            /\ raised' = "none" => regularization' = [i \in 1..Len(dispersion) |-> v]

\* C2: whatever is assigned, accepted or rejected, the stored regularization is
\* None or one finite value >= 0 per pixel, and an accepted scalar v is stored
\* as v at every pixel.
C2_RegularizationInvariant == []RegularizationValid /\ [][ScalarStored]_vars

C2_Witness ==
    /\ raised \in {RegularizationSize, RegularizationSign}
    /\ regularization = [i \in 1..Len(dispersion) |-> Fin(1)]

\* what the claim calls an invalid assignment
InvalidRegularization(input) ==
    /\ ~input.is_none
    /\ \/ \E i \in 1..Len(input.value) : Lt0(input.value[i])
       \/ \E i \in 1..Len(input.value) : ~IsFinite(input.value[i])
       \/ Len(input.value) \notin {1, Len(dispersion)}

\* C3: an assignment of a negative or non-finite value, or of an array of a
\* wrong length, raises at the assignment and leaves the stored regularization
\* (and theta and s2) as it was.
C3_InvalidRegularizationRejected ==
    [][ \A input \in RegInputs :
            (InvalidRegularization(input) /\ SetRegularization(input)) =>
                /\ raised' \in {RegularizationSize, RegularizationSign}
                /\ regularization' = regularization
                /\ pc' = "idle"
                /\ theta' = theta
                /\ s2' = s2 ]_vars

C3_Witness ==
    /\ raised = RegularizationSign
    /\ regularization # None
    /\ \E i \in 1..Len(regularization) : regularization[i] # Fin(0)
    /\ theta # None

\* the fitter the claim expects for the stored regularization values
ExpectedFunction ==
    IF \A i \in 1..Len(regularization) : regularization[i] = Fin(0)
    THEN "_fit_pixel" ELSE "_fit_regularized_pixel"

\* C4: train picks the per-pixel optimizer once: _fit_pixel for every pixel when
\* every regularization value is zero, and else _fit_regularized_pixel for every
\* pixel, each with its own regularization value.
C4_OptimizerChosenOnce ==
    (pc = "mapping" /\ regularization # None) =>
        /\ kwds.function = ExpectedFunction
        /\ \A i \in 1..Len(rows) :
            /\ called[i] \in {"none", ExpectedFunction}
            /\ status[i] # "queued" => called[i] = ExpectedFunction
            /\ IF ExpectedFunction = "_fit_regularized_pixel"
               THEN Len(rows[i]) = 4 /\ rows[i][4] = regularization[i]
               ELSE Len(rows[i]) = 3

C4_Witness ==
    /\ pc = "mapping"
    /\ regularization # None
    /\ \E i, j \in 1..Len(rows) :
        /\ regularization[i] = Fin(0)
        /\ regularization[j] # Fin(0)
        /\ status[i] = "done"
        /\ called[i] = "_fit_regularized_pixel"

\* C5: with the regularization None, train fits every pixel with _fit_pixel, as
\* the unregularized training does.
C5_NoneTrainsUnregularized ==
    [][ \A f \in BOOLEAN :
            (TrainBegin(f) /\ regularization = None /\ ~MissingScatter(f, s2)) =>
                /\ raised' = "none"
                /\ pc' = "mapping"
                /\ kwds'.function = "_fit_pixel" ]_vars

\* the step in which a train call completes and stores theta and s2
TrainCompletes == pc = "mapping" /\ pc' = "idle"

\* the per-pixel optimizer of the run applied to input slice i: column i of the
\* flux and of the inverse variance, seed i and regularization i
SliceFit(i) ==
    CHOOSE r \in
        { IF kwds.function = "_fit_pixel"
          THEN FitPixel(powell, x.flux, x.ivar, x.seed, design_matrix, kwds.fixed_scatter)
          ELSE FitRegularizedPixel(powell, x.flux, x.ivar, x.seed, x.regularization,
                                   design_matrix, kwds.fixed_scatter) :
            x \in { [flux |-> [n \in Stars |-> normalized_flux[n][i]],
                     ivar |-> [n \in Stars |-> normalized_ivar[n][i]],
                     seed |-> IF kwds.fixed_scatter THEN Sqrt(s2[i]) ELSE DefaultScatter,
                     regularization |-> IF regularization = None THEN None
                                        ELSE regularization[i]] } } : TRUE

\* C6: for every pixel i, the theta[i] and s2[i] that train stores come from the
\* per-pixel optimizer applied to input slice i, whatever order the workers of a
\* pool start and finish in, so that a pool and the sequential map store the same.
C6_SlotMatchesSlice ==
    [][ TrainCompletes =>
            /\ Len(theta') = Len(dispersion)
            /\ Len(s2') = Len(dispersion)
            /\ \A i \in 1..Len(dispersion) : \A fit \in {SliceFit(i)} :
                /\ theta'[i] = AllButLast(fit)
                /\ s2'[i] = Sq(Last(fit)) ]_vars

C6_Witness ==
    /\ pool
    /\ pc = "mapping"
    /\ status[1] = "running"
    /\ status[Len(status)] = "done"
    /\ results[Len(status)] = SliceFit(Len(status))
    /\ results[Len(status)] # SliceFit(1)

\* the stars that weigh in the fit of pixel i: those of a positive inverse
\* variance, when the seed of the scatter is finite
Weighted(i) == {n \in Stars : rows[i][2][n] > 0 /\ IsFinite(rows[i][3])}

\* the normal equations of pixel i are singular: the design rows of the stars
\* that weigh in are fewer than the terms (and no weight is nan)
SingularPixel(i) ==
    /\ rows[i][3] # NaN
    /\ IsFinite(rows[i][3]) \/ \A n \in Stars : rows[i][2][n] > 0
    /\ Cardinality({design_matrix[n] : n \in Weighted(i)}) < NTerms(design_matrix)

BiasOnly == [k \in 1..NTerms(design_matrix) |-> IF k = 1 THEN Fin(1) ELSE Fin(0)]

\* C7: a singular pixel never aborts training: nothing is raised while the
\* pixels are fitted or when train completes, the theta of the singular pixel is
\* the bias-only [1, 0, ..., 0], and every other pixel gets its own fit.
C7_SingularPixelRecovered ==
    [][ /\ pc' = "mapping" => raised' = "none"
        /\ TrainCompletes =>
            /\ raised' = "none"
            /\ \A i \in 1..Len(rows) :
                IF SingularPixel(i)
                THEN theta'[i] = BiasOnly
                ELSE (\E j \in 1..Len(rows) : SingularPixel(j)) =>
                        \A fit \in {SliceFit(i)} :
                            /\ theta'[i] = AllButLast(fit)
                            /\ s2'[i] = Sq(Last(fit)) ]_vars

C7_Witness ==
    /\ pc = "mapping"
    /\ \A i \in 1..Len(status) : status[i] = "done"
    /\ \E i, j \in 1..Len(rows) :
        /\ SingularPixel(i)
        /\ AllButLast(results[i]) = BiasOnly
        /\ ~SingularPixel(j)
        /\ AllButLast(results[j]) # BiasOnly

\* C8 as stated: after every completed train call, s2 is finite for every pixel.
C8_S2FiniteAfterTrain ==
    [][ TrainCompletes => \A i \in 1..Len(s2') : IsFinite(s2'[i]) ]_vars

\* C8: after a completed train call with a free scatter, s2 is +inf for every
\* singular pixel and the finite square of the optimized scatter for every other
\* pixel; with a fixed scatter, s2 is finite exactly where the supplied s2 was
\* finite and not negative.
C8_S2FiniteUnlessSingular ==
    [][ TrainCompletes =>
            \A i \in 1..Len(rows) :
                IF kwds.fixed_scatter
                THEN IsFinite(s2'[i]) <=> (IsFinite(s2[i]) /\ Ge0(s2[i]))
                ELSE IF SingularPixel(i)
                THEN s2'[i] = Inf
                ELSE s2'[i] \in {Sq(Fin(o.scatter)) : o \in Outcomes} ]_vars

C8_Witness ==
    /\ pc = "idle"
    /\ raised = "none"
    /\ theta # None
    /\ s2 # None
    /\ \E i, j \in 1..Len(s2) :
        /\ s2[i] = Inf
        /\ theta[i] = BiasOnly
        /\ IsFinite(s2[j])

\* C9: train stores the scatter as a variance: s2[i] is the square of the last
\* entry of the result the optimizer returned for pixel i, and so is never
\* negative, also when that entry is negative.
C9_S2IsSquareOfSigma ==
    [][ TrainCompletes =>
            \A i \in 1..Len(results) :
                /\ s2'[i] = Mul(results[i][Len(results[i])], results[i][Len(results[i])])
                /\ Ge0(s2'[i]) ]_vars

C9_Witness ==
    /\ pc = "mapping"
    /\ \A i \in 1..Len(status) : status[i] = "done"
    /\ \E i \in 1..Len(results) : Lt0(results[i][Len(results[i])])

\* C10: training with fixed_scatter=True never changes the scatter: the s2 after
\* train is the s2 the caller supplied before it, for every pixel.
C10_FixedScatterKeepsS2 ==
    [][ (TrainCompletes /\ kwds.fixed_scatter) => s2' = s2 ]_vars

\* ------------------------------------------------------------ properties of the per-pixel fits

\* the step in which the fit of row i ends
PixelFitted(i) == pc = "mapping" /\ status[i] # "done" /\ status'[i] = "done"

\* whether the line-search optimizer is among the calls
InvokesPowell(calls) == \E k \in 1..Len(calls) : calls[k] = "fmin_powell"

\* the start of the search for row i, given the solve at the seed
StartOfSearch(i, theta0) ==
    IF kwds.function = "_fit_pixel" THEN <<rows[i][3]>>
    ELSE IF kwds.fixed_scatter THEN theta0
    ELSE <<rows[i][3]>> \o theta0

\* what the line search does for row i, by the rule of the behaviour
OutcomeOfSearch(i, theta0) ==
    powell[PowellKey(rows[i][1], rows[i][2], StartOfSearch(i, theta0),
                     IF kwds.function = "_fit_pixel" THEN Fin(0) ELSE rows[i][4],
                     design_matrix)]

\* the point the line search for row i ends at
PointOfSearch(i, theta0) ==
    FminPowell(powell,
               IF kwds.function = "_fit_pixel" THEN "_fit_pixel_with_fixed_scatter"
               ELSE IF kwds.fixed_scatter
               THEN "_fit_pixel_with_fixed_regularization_and_fixed_scatter"
               ELSE "_fit_pixel_with_fixed_regularization",
               StartOfSearch(i, theta0), rows[i][1], rows[i][2],
               IF kwds.function = "_fit_pixel" THEN Fin(0) ELSE rows[i][4],
               design_matrix)

\* C14: when the line search of a pixel reports that it stopped at its ceiling
\* of function evaluations or of iterations (warnflag > 0), a warning is logged,
\* nothing is raised, the value the search ended at is the result of the pixel,
\* and training goes on; on the unregularized and on the regularized path.
C14_CeilingIsAWarning ==
    [][ \A i \in 1..Len(status) :
            (PixelFitted(i) /\ InvokesPowell(trace'[i].calls)) =>
                \A theta0 \in {FitTheta(rows[i][1], rows[i][2], rows[i][3],
                                        design_matrix).theta} :
                \A out \in {OutcomeOfSearch(i, theta0)} :
                    IF out.warnflag > 0 /\ ~HasNaN(StartOfSearch(i, theta0))
                    THEN /\ trace'[i].warning =
                                IF kwds.function = "_fit_pixel"
                                THEN PixelWarnings[out.warnflag]
                                ELSE RegularizedPixelWarnings[out.warnflag]
                         /\ raised' = "none"
                         /\ pc' = "mapping"
                         /\ Len(results'[i]) = NTerms(design_matrix) + 1
                         /\ (~kwds.fixed_scatter) => Last(results'[i]) = Fin(out.scatter)
                         /\ \A found \in {PointOfSearch(i, theta0)} :
                                IF kwds.function = "_fit_pixel"
                                THEN Last(results'[i]) = found[1]
                                ELSE IF kwds.fixed_scatter
                                THEN results'[i] = Append(found, rows[i][3])
                                ELSE results'[i] = Append(Tail(found), found[1])
                    ELSE trace'[i].warning = "none" ]_vars

C14_Witness ==
    /\ pc = "mapping"
    /\ raised = "none"
    /\ \E i, j \in 1..Len(status) :
        /\ status[i] = "done"
        /\ trace[i].warning = RegularizedPixelWarnings[2]
        /\ status[j] # "done"

\* C16: a train call overwrites theta and s2 and updates nothing: the theta it
\* stores is that of a model with no theta before, and with a free scatter the
\* theta and s2 it stores are those of a model with neither theta nor s2 before.
C16_TrainOverwrites ==
    [][ TrainCompletes =>
            \A fresh \in {TrainedFrom(regularization, kwds.fixed_scatter,
                                      IF kwds.fixed_scatter THEN s2 ELSE None)} :
                /\ theta' = fresh.theta
                /\ (~kwds.fixed_scatter) => s2' = fresh.s2 ]_vars

C16_Witness ==
    /\ pc = "mapping"
    /\ ~kwds.fixed_scatter
    /\ \A i \in 1..Len(status) : status[i] = "done"
    /\ theta # None
    /\ s2 # None
    /\ \E i \in 1..Len(results) :
        /\ theta[i] # AllButLast(results[i])
        /\ s2[i] # Sq(Last(results[i]))

\* C17: after a completed train call theta has one row per pixel column of
\* normalized_flux and one column per term of the design matrix, and s2 has
\* one entry per pixel: zipping the per-pixel arguments drops no pixel.
C17_ShapesAfterTrain ==
    [][ TrainCompletes =>
            /\ Len(rows) = Len(normalized_flux[1])
            /\ Len(theta') = Len(normalized_flux[1])
            /\ Len(s2') = Len(normalized_flux[1])
            /\ \A i \in 1..Len(theta') : Len(theta'[i]) = Len(design_matrix[1]) ]_vars

C17_Witness ==
    /\ pc = "idle"
    /\ raised = "none"
    /\ theta # None
    /\ s2 # None
    /\ Len(theta) = NPixels
    /\ Len(s2) = NPixels
    /\ regularization # None
    /\ \E i \in 1..Len(regularization) : regularization[i] # Fin(0)

\* C18: for a pixel that is singular at the seed scatter, either per-pixel
\* optimizer returns at once, without raising and without a line search: theta
\* is [1, 0, ..., 0] and the scatter is the seed if fixed_scatter is set and
\* the failure value (inf) if not.
C18_SingularReturnsAtOnce ==
    [][ \A i \in 1..Len(status) :
            (PixelFitted(i) /\ SingularPixel(i)) =>
                /\ ~InvokesPowell(trace'[i].calls)
                /\ raised' = "none"
                /\ AllButLast(results'[i]) = BiasOnly
                /\ Last(results'[i]) = IF kwds.fixed_scatter THEN rows[i][3] ELSE Inf ]_vars

C18_Witness ==
    /\ pc = "mapping"
    /\ kwds.function = "_fit_regularized_pixel"
    /\ \E i, j \in 1..Len(status) :
        /\ status[i] = "done"
        /\ SingularPixel(i)
        /\ results[i] = Append(BiasOnly, Inf)
        /\ status[j] = "done"
        /\ InvokesPowell(trace[j].calls)

\* C19: on the unregularized path with fixed_scatter set the fit of a pixel
\* ends at once: one solve at the supplied scatter, no line search, and the
\* result is the theta of that solve with the supplied scatter; with
\* fixed_scatter unset and a solve at the seed that is not singular, the line
\* search is invoked.
C19_FixedScatterIsTerminal ==
    [][ \A i \in 1..Len(status) :
            (PixelFitted(i) /\ kwds.function = "_fit_pixel") =>
                IF kwds.fixed_scatter
                THEN /\ trace'[i].calls = <<"_fit_theta">>
                     /\ \A solve \in {FitTheta(rows[i][1], rows[i][2], rows[i][3],
                                               design_matrix)} :
                            results'[i] = Append(solve.theta, rows[i][3])
                ELSE (~SingularPixel(i)) =>
                        Cardinality({k \in 1..Len(trace'[i].calls) :
                                        trace'[i].calls[k] = "fmin_powell"}) = 1 ]_vars

C19_Witness ==
    /\ pc = "mapping"
    /\ kwds.function = "_fit_pixel"
    /\ kwds.fixed_scatter
    /\ \E i \in 1..Len(status) :
        /\ status[i] = "done"
        /\ ~SingularPixel(i)
        /\ trace[i].calls = <<"_fit_theta">>
        /\ AllButLast(results[i]) # BiasOnly

\* the sum of |theta[k]| over the coefficients after the bias
SumAfterBias(coefficients) ==
    SumSeq([k \in 1..(Len(coefficients) - 1) |-> AbsF(coefficients[k + 1])])

\* C20: the penalty of the regularized objective is the regularization times
\* the sum of |theta[k]| over k >= 1: the bias theta[0] adds nothing, on the
\* fixed-scatter and on the free-scatter objective, so vectors that differ in
\* the bias alone get one penalty.
C20_PenaltyLeavesBiasOut ==
    [][ \A i \in 1..Len(status) :
            (PixelFitted(i) /\ kwds.function = "_fit_regularized_pixel"
                /\ InvokesPowell(trace'[i].calls)) =>
                \A theta0 \in {FitTheta(rows[i][1], rows[i][2], rows[i][3],
                                        design_matrix).theta} :
                    /\ trace'[i].penalty = Mul(rows[i][4], SumAfterBias(theta0))
                    /\ \A bias \in {Fin(0), Fin(-3)} :
                        /\ PenaltyFixedScatter(<<bias>> \o Tail(theta0), rows[i][4])
                            = PenaltyFixedScatter(theta0, rows[i][4])
                        /\ PenaltyFreeScatter(<<rows[i][3], bias>> \o Tail(theta0), rows[i][4])
                            = PenaltyFreeScatter(<<rows[i][3]>> \o theta0, rows[i][4]) ]_vars

C20_Witness ==
    /\ pc = "mapping"
    /\ kwds.function = "_fit_regularized_pixel"
    /\ \E i \in 1..Len(status) :
        /\ status[i] = "done"
        /\ InvokesPowell(trace[i].calls)
        /\ rows[i][4] = Fin(1)
        /\ IsFinite(trace[i].penalty)
        /\ trace[i].penalty # Fin(0)

\* ------------------------------------------------------------ properties of fit

\* the rows of the arrays handed to fit
Rows(a, ndim) == IF ndim = 1 THEN <<a>> ELSE a

\* ivar / (1 + ivar * variance)
InflatedBy(iv, variance) == Div(Fin(iv), Add(Fin(1), Mul(Fin(iv), variance)))

\* C11: the effective inverse variance that fit uses for pixel p of a spectrum,
\* in the linear estimate and in the refinement, is ivar / (1 + ivar * s2[p]),
\* the inflation that training applies at the trained scatter.
C11_FitInflatesByTrainedVariance ==
    [][ \A i \in 1..Len(fitted') : \A p \in 1..Len(s2) :
            \A iv \in {Rows(fitted'[i].args.ivar, fitted'[i].args.ndim)[i][p]} :
                /\ fitted'[i].run.inv_var_estimate[p] = InflatedBy(iv, s2[p])
                /\ fitted'[i].run.inv_var # <<>> =>
                    fitted'[i].run.inv_var[p] = InflatedBy(iv, s2[p]) ]_vars

\* a curve_fit that converges for every spectrum
AllConverge == [k \in 0..1 |-> "converged"]

\* the labels of spectrum i of the input, fitted on its own
Alone(input, i) ==
    FitSpectrum(AllConverge, theta, s2, Rows(input.flux, input.ndim)[i],
                Rows(input.ivar, input.ndim)[i]).labels

\* C12: fit takes one spectrum or a batch and returns one label row per
\* spectrum; row i is what fitting spectrum i on its own gives, whatever else
\* is in the batch.
C12_OneRowPerSpectrum ==
    [][ (fitted' # <<>> /\ raised' = "none") =>
            \A input \in {fitted'[1].args} :
                /\ Len(returned') = IF input.ndim = 1 THEN 1 ELSE Len(input.flux)
                /\ \A i \in 1..Len(returned') : returned'[i] = Alone(input, i) ]_vars

C12_Witness ==
    /\ raised = "none"
    /\ returned # None
    /\ Len(returned) = 2
    /\ fitted[1].args.flux[1] # fitted[1].args.flux[2]
    /\ returned[1] # returned[2]
    /\ IsFinite(returned[1][1])
    /\ IsFinite(returned[2][1])

C15_FitSurvivesNonConvergence ==
    [][ (fitted' # <<>> /\ raised' # LinAlgError) =>
            \A input \in {fitted'[1].args} :
                /\ raised' = "none"
                /\ returned' # None
                /\ Len(returned') = IF input.ndim = 1 THEN 1 ELSE Len(input.flux) ]_vars

\* ------------------------------------------------------------ properties of cross-validation

\* C23: cross_validate_regularization never completes: whatever its arguments,
\* the call ends with an exception raised before the loop over Lambdas, so it
\* trains no model, writes no dump file, and leaves the theta, the s2 and the
\* regularization of the model it is called on as they were.
C23_CrossValidationNeverCompletes ==
    [][ (\E Lambdas \in LambdaSets, fixed_scatter \in BOOLEAN, pixel_mask \in PixelMasks,
            mod \in Mods, strict \in BOOLEAN :
                CrossValidateRegularization(Lambdas, fixed_scatter, pixel_mask, mod, strict))
        => /\ raised' # "none"
           /\ cv'.line < LoopLine
           /\ cv'.trained = 0
           /\ ~cv'.dumped
           /\ theta' = theta
           /\ s2' = s2
           /\ regularization' = regularization ]_vars

C23_Witness ==
    /\ cv.line = 277
    /\ raised = NameNotDefined
    /\ theta # None
    /\ s2 # None
    /\ regularization # None

\* ------------------------------------------------------------ properties of the regularized search

\* C22: with fixed_scatter set the regularized per-pixel optimizer searches
\* over theta alone (K parameters), from the theta of _fit_theta, with the
\* effective inverse variance held at the supplied scatter; with fixed_scatter
\* unset it searches over (scatter, theta) (K + 1 parameters), from the seed
\* scatter followed by that theta.  Either way it returns K + 1 values, the K
\* of theta first and the scatter last, which is how train unpacks them.
C22_SearchSpaceAndLayout ==
    [][ /\ \A i \in 1..Len(status) :
            (PixelFitted(i) /\ kwds.function = "_fit_regularized_pixel"
                /\ InvokesPowell(trace'[i].calls)) =>
                \A first \in {FitTheta(rows[i][1], rows[i][2], rows[i][3], design_matrix)} :
                \A found \in {PointOfSearch(i, first.theta)} :
                \A K \in {NTerms(design_matrix)} :
                    /\ Len(results'[i]) = K + 1
                    /\ IF kwds.fixed_scatter
                       THEN /\ Len(trace'[i].search.p0) = K
                            /\ trace'[i].search.p0 = first.theta
                            /\ trace'[i].search.ivar =
                                [n \in Stars |-> EffIvar(rows[i][2][n], rows[i][3])]
                            /\ AllButLast(results'[i]) = found
                            /\ Last(results'[i]) = rows[i][3]
                       ELSE /\ Len(trace'[i].search.p0) = K + 1
                            /\ trace'[i].search.p0 = <<rows[i][3]>> \o first.theta
                            /\ trace'[i].search.ivar =
                                [n \in Stars |-> Fin(rows[i][2][n])]
                            /\ AllButLast(results'[i]) = Tail(found)
                            /\ Last(results'[i]) = found[1]
        /\ TrainCompletes =>
            \A i \in 1..Len(results) :
                /\ theta'[i] = AllButLast(results[i])
                /\ s2'[i] = Sq(Last(results[i])) ]_vars

C22_Witness ==
    /\ pc = "mapping"
    /\ kwds.function = "_fit_regularized_pixel"
    /\ kwds.fixed_scatter
    /\ \E i \in 1..Len(status) :
        /\ status[i] = "done"
        /\ InvokesPowell(trace[i].calls)
        /\ Len(trace[i].search.p0) = NTerms(design_matrix)
        /\ Len(results[i]) = NTerms(design_matrix) + 1
        /\ rows[i][3] # Fin(0)
        /\ trace[i].search.ivar # [n \in Stars |-> Fin(rows[i][2][n])]

\* ------------------------------------------------------------ training on one star more
\* With as many stars as the design matrix has terms a fit that is not singular
\* passes through every flux, whatever the weights.  These data sets have one
\* star more, so that the theta of a pixel depends on the weights of its stars.
ExtraStar == NStars + 1

FluxOfExtraStar(kind) ==
    IF kind = "ramp" THEN ExtraStar ELSE IF kind = "curve" THEN ExtraStar * ExtraStar ELSE 2

IvarOfExtraStar(kind) ==
    IF kind = "ones" THEN 1
    ELSE IF kind = "uneven" THEN 1 + (ExtraStar % 2)
    ELSE IF kind = "masked" THEN 0
    ELSE 1

InitWide ==
    /\ \E shift \in 0..(Len(Columns) - 1) :
        /\ normalized_flux =
             Append([n \in Stars |-> [p \in Pixels |-> FluxColumn(ColumnOf(shift, p).flux)[n]]],
                    [p \in Pixels |-> FluxOfExtraStar(ColumnOf(shift, p).flux)])
        /\ normalized_ivar =
             Append([n \in Stars |-> [p \in Pixels |-> IvarColumn(ColumnOf(shift, p).ivar)[n]]],
                    [p \in Pixels |-> IvarOfExtraStar(ColumnOf(shift, p).ivar)])
    /\ \E labels \in LabelSets :
            design_matrix = Append([n \in Stars |-> Vectorizer(labels[n])],
                                   Vectorizer(IF labels[1] = labels[NStars] THEN labels[1]
                                              ELSE ExtraStar - 1))
    /\ dispersion = [p \in Pixels |-> p]
    /\ pool \in BOOLEAN
    /\ powell \in PowellRules
    /\ theta = None
    /\ s2 = None
    /\ regularization = None
    /\ pc = "idle"
    /\ kwds = NoKwds
    /\ rows = <<>>
    /\ status = <<>>
    /\ results = <<>>
    /\ called = <<>>
    /\ trace = <<>>
    /\ returned = None
    /\ fitted = <<>>
    /\ cv = NoCrossValidation
    /\ raised = "none"

SpecWide == InitWide /\ [][Next]_vars

\* ------------------------------------------------------------ properties across pixels

\* what train stores for pixel i of a model with the given data, regularization
\* and stored variance: row i of zip(*args) through the wrapped fitter, unpacked
TrainedPixel(i, flux, ivar, reg, fixed_scatter, variance) ==
    CHOOSE r \in
        { [theta |-> AllButLast(res), s2 |-> Sq(Last(res))] :
            res \in { Wrapper(powell,
                        [function |-> SelectFunction(reg), fixed_scatter |-> fixed_scatter,
                         design_matrix |-> design_matrix],
                        Zip(<<Transpose(flux), Transpose(ivar),
                              InitialScatter(fixed_scatter, variance, dispersion)>>
                            \o AdditionalArgs(reg))[i]) } } : TRUE

\* the model of the run with the flux column of pixel j changed, or its column
\* of inverse variances
DataOfPixelChanged(j) ==
    { [flux |-> [n \in 1..Len(normalized_flux) |-> [p \in Pixels |->
                    IF p = j /\ c = "flux" THEN normalized_flux[n][p] + 1
                    ELSE normalized_flux[n][p]]],
       ivar |-> [n \in 1..Len(normalized_ivar) |-> [p \in Pixels |->
                    IF p = j /\ c = "ivar" THEN normalized_ivar[n][p] + 1
                    ELSE normalized_ivar[n][p]]],
       reg |-> regularization,
       variance |-> IF kwds.fixed_scatter THEN s2 ELSE None] : c \in {"flux", "ivar"} }

\* ... or with the s2 of pixel j changed, which a fixed scatter is seeded from
SeedOfPixelChanged(j) ==
    { [flux |-> normalized_flux, ivar |-> normalized_ivar, reg |-> regularization,
       variance |-> [s2 EXCEPT ![j] = v]] :
        v \in IF kwds.fixed_scatter THEN S2InputVals \ {s2[j]} ELSE {} }

\* ... or with the regularization of pixel j changed
RegularizationOfPixelChanged(j) ==
    { [flux |-> normalized_flux, ivar |-> normalized_ivar,
       reg |-> [regularization EXCEPT ![j] = v],
       variance |-> IF kwds.fixed_scatter THEN s2 ELSE None] :
        v \in RegValidVals \ {regularization[j]} }

\* C21: the theta and the s2 that train stores for pixel i are those it stores
\* for pixel i of a model in which another pixel has another flux column,
\* another column of inverse variances, another seed or another regularization.
C21_PixelsAreIndependent ==
    [][ TrainCompletes =>
            \A i \in 1..Len(theta') : \A j \in (1..Len(theta')) \ {i} :
                \A other \in DataOfPixelChanged(j) \cup SeedOfPixelChanged(j)
                                \cup RegularizationOfPixelChanged(j) :
                    \A again \in {TrainedPixel(i, other.flux, other.ivar, other.reg,
                                               kwds.fixed_scatter, other.variance)} :
                        /\ again.theta = theta'[i]
                        /\ again.s2 = s2'[i] ]_vars

====
